---- MODULE Spec2Model ----
(***************************************************************************)
(* Model of tools/jira_sync.py (class JiraGitHubSync): Jira key extraction  *)
(* from free text and the synchronisation of one GitHub pull-request event  *)
(* with a Jira issue (verify, remote link, comment, transition).            *)
(*                                                                         *)
(* Texts are sequences of one-character strings, so that the regular        *)
(* expression, str.split and the allow-list filter are computed character   *)
(* by character as Python computes them.                                    *)
(***************************************************************************)
EXTENDS Integers, Sequences, FiniteSets, TLC

(***************************************************************************)
(* Bounds of the model.                                                     *)
(***************************************************************************)
\* number of process runs (CI triggers) one behaviour strings together
MaxRuns == 2
\* number of vocabulary tokens concatenated into one generated text
MaxTokens == 1
\* number of characters of a generated text
MaxChars == 4
\* number of CI triggers that run concurrently for one pull request
MaxTriggers == 3

(***************************************************************************)
(* Python values.                                                           *)
(***************************************************************************)
\* Python's None, where a text or a key may be missing
None == <<"None">>

\* `text or ""` (jira_sync.py line 47)
OrEmpty(text) == IF text = None THEN <<>> ELSE text

(***************************************************************************)
(* The key pattern \b([A-Z][A-Z0-9]{1,9}-[0-9]+)\b and re.findall.          *)
(***************************************************************************)
Upper == {"A","B","C","D","E","F","G","H","I","J","K","L","M",
          "N","O","P","Q","R","S","T","U","V","W","X","Y","Z"}

LowerCase == {"a","b","c","d","e","f","g","h","i","j","k","l","m",
              "n","o","p","q","r","s","t","u","v","w","x","y","z"}

Digit == {"0","1","2","3","4","5","6","7","8","9"}

\* \w of Python's re for these texts
WordChar == Upper \cup LowerCase \cup Digit \cup {"_"}

\* \b at position i: between t[i-1] and t[i], exactly one side is a word char
WordBoundary(t, i) ==
    ((i > 1 /\ i - 1 <= Len(t)) /\ t[i-1] \in WordChar)
        # ((i >= 1 /\ i <= Len(t)) /\ t[i] \in WordChar)

\* smallest and largest repetition count of [A-Z0-9]{1,9}
MinRep == 1
MaxRep == 9

\* the counts n for which [A-Z][A-Z0-9]{n}- matches at position i
ProjectLens(t, i) ==
    IF ~(WordBoundary(t, i) /\ t[i] \in Upper) THEN {}
    ELSE { n \in MinRep..MaxRep :
            /\ i + n + 1 <= Len(t)
            /\ t[i + n + 1] = "-"
            /\ \A j \in 1..n : t[i + j] \in (Upper \cup Digit) }

\* the counts m for which [0-9]{m}\b matches at position d
NumberLens(t, d) ==
    { m \in 1..(Len(t) - d + 1) :
        /\ \A j \in 0..(m - 1) : t[d + j] \in Digit
        /\ WordBoundary(t, d + m) }

\* the pairs <<n, m>> for which the pattern matches at position i with n
\* characters taken by [A-Z0-9]{1,9} and m digits taken by [0-9]+
MatchLens(t, i) ==
    UNION { { <<n, m>> : m \in NumberLens(t, i + n + 2) } : n \in ProjectLens(t, i) }

\* the largest member of a set of numbers
Largest(S) == CHOOSE x \in S : \A y \in S : y <= x

\* the greedy quantifiers take the longest n, then the longest m; the value
\* is the position of the last character of the match
GreedyMatch(t, i) ==
    LET n == Largest({nm[1] : nm \in MatchLens(t, i)})
        m == Largest({nm[2] : nm \in {x \in MatchLens(t, i) : x[1] = n}})
    IN  i + n + 1 + m

\* re.findall: leftmost non-overlapping matches, scanning from position i
RECURSIVE FindAll(_, _)
FindAll(t, i) ==
    IF i > Len(t) THEN <<>>
    ELSE IF MatchLens(t, i) # {}
         THEN <<SubSeq(t, i, GreedyMatch(t, i))>> \o FindAll(t, GreedyMatch(t, i) + 1)
         ELSE FindAll(t, i + 1)

(***************************************************************************)
(* str.split and the allow-list.                                            *)
(***************************************************************************)
\* index of the first occurrence of sep in s at or after i, 0 if none
RECURSIVE IndexOf(_, _, _)
IndexOf(s, sep, i) ==
    IF i > Len(s) THEN 0
    ELSE IF s[i] = sep THEN i
    ELSE IndexOf(s, sep, i + 1)

\* s.split(sep) for a one-character separator: "".split(",") is [""]
RECURSIVE Split(_, _)
Split(s, sep) ==
    LET p == IndexOf(s, sep, 1)
    IN  IF p = 0 THEN <<s>>
        ELSE <<SubSeq(s, 1, p - 1)>> \o Split(SubSeq(s, p + 1, Len(s)), sep)

\* self.valid_projects, from the value of JIRA_PROJECT_KEYS ("" when unset)
ValidProjects(env) == Split(env, ",")

\* membership in a Python list
InList(x, xs) == \E i \in 1..Len(xs) : xs[i] = x

RECURSIVE Filter(_, _)
Filter(keys, projects) ==
    IF keys = <<>> THEN <<>>
    ELSE IF InList(Split(Head(keys), "-")[1], projects)
         THEN <<Head(keys)>> \o Filter(Tail(keys), projects)
         ELSE Filter(Tail(keys), projects)

\* JiraGitHubSync.extract_jira_keys
extract_jira_keys(text, valid_projects) ==
    LET keys == FindAll(OrEmpty(text), 1)
    IN  IF Len(valid_projects) > 0 THEN Filter(keys, valid_projects) ELSE keys

\* a variant that returns the last key of the first source that has one
RECURSIVE get_last_of_first(_, _)
get_last_of_first(texts, valid_projects) ==
    IF texts = <<>> THEN None
    ELSE LET keys == extract_jira_keys(Head(texts), valid_projects)
         IN  IF Len(keys) > 0 THEN keys[Len(keys)]
             ELSE get_last_of_first(Tail(texts), valid_projects)

\* JiraGitHubSync.get_first_jira_key
RECURSIVE get_first_jira_key(_, _)
get_first_jira_key(texts, valid_projects) ==
    IF texts = <<>> THEN None
    ELSE LET keys == extract_jira_keys(Head(texts), valid_projects)
         IN  IF Len(keys) > 0 THEN keys[1]
             ELSE get_first_jira_key(Tail(texts), valid_projects)


(***************************************************************************)
(* Texts used as inputs.                                                    *)
(***************************************************************************)
SECO42 == <<"S","E","C","O","-","4","2">>
PLAT7 == <<"P","L","A","T","-","7">>
PLAT7_SECO42 == <<"P","L","A","T","-","7"," ","S","E","C","O","-","4","2">>
DASHFIX == <<"-","f","i","x">>
XSLASH == <<"x","/">>
LOWERKEY == <<"a","b","c","-","1">>
BRANCH_EXAMPLE == <<"f","e","a","t","u","r","e","/","S","E","C","O","-","4","2","-","f","i","x">>
UNRELATED == <<"U","n","r","e","l","a","t","e","d">>
ENV_SECO == <<"S","E","C","O">>
ENV_SECO_PLAT == <<"S","E","C","O",",","P","L","A","T">>

(***************************************************************************)
(* Key extraction on its own: the inputs are drawn by InitKey and           *)
(* ApplyFirstKey applies get_first_jira_key to them.                        *)
(***************************************************************************)
VARIABLES kTexts, kEnv, kResult, kDone

kvars == <<kTexts, kEnv, kResult, kDone>>

\* the two key extractors on their own: the drawn text and allow-list, the
\* keys returned, and which extractor returned them
VARIABLES eText, eEnv, eKeys, ePc

evars == <<eText, eEnv, eKeys, ePc>>

\* Concurrent runs of create_or_update_remote_link for one pull request and
\* one issue: each CI trigger is a process of its own
VARIABLES
    rpc,    \* where each trigger's run stands: "idle", "link_get",
            \* "link_post" or "returned"
    rpr,    \* the pull-request data of each trigger's event
    rret    \* what create_or_update_remote_link returned: "True", "False",
            \* or "none" while it has not returned

rvars == <<rpc, rpr, rret>>

\* the variables the sync engine never touches
pvars == <<kvars, evars, rvars>>

(***************************************************************************)
(* tools/extract_jira.py: KEY_REGEX = [A-Z]+-\d+ and extract_keys.          *)
(***************************************************************************)
\* the pairs <<n, m>> for which KEY_REGEX matches at position i with n
\* letters taken by [A-Z]+ and m digits taken by \d+
KeyRegexLens(t, i) ==
    { nm \in (1..Len(t)) \X (1..Len(t)) :
        /\ i + nm[1] + nm[2] <= Len(t)
        /\ \A j \in 0..(nm[1] - 1) : t[i + j] \in Upper
        /\ t[i + nm[1]] = "-"
        /\ \A j \in 1..nm[2] : t[i + nm[1] + j] \in Digit }

\* the position of the last character of the greedy match at position i
KeyRegexMatch(t, i) ==
    LET n == Largest({nm[1] : nm \in KeyRegexLens(t, i)})
        m == Largest({nm[2] : nm \in {x \in KeyRegexLens(t, i) : x[1] = n}})
    IN  i + n + m

\* KEY_REGEX.findall, scanning from position i
RECURSIVE KeyRegexFindAll(_, _)
KeyRegexFindAll(t, i) ==
    IF i > Len(t) THEN <<>>
    ELSE IF KeyRegexLens(t, i) # {}
         THEN <<SubSeq(t, i, KeyRegexMatch(t, i))>>
                  \o KeyRegexFindAll(t, KeyRegexMatch(t, i) + 1)
         ELSE KeyRegexFindAll(t, i + 1)

\* extract_jira.extract_keys
extract_keys(text) == KeyRegexFindAll(OrEmpty(text), 1)

(***************************************************************************)
(* Inputs of the two extractors.                                            *)
(***************************************************************************)
\* the characters the generated texts are made of: a letter, a digit, the
\* hyphen, a lower-case letter and a separator
ShapeAlphabet == {"A", "1", "-", "a", " "}

\* all texts of at most n characters
RECURSIVE CharTextsUpTo(_)
CharTextsUpTo(n) ==
    IF n = 0 THEN {<<>>}
    ELSE CharTextsUpTo(n - 1)
            \cup { Append(t, c) : t \in CharTextsUpTo(n - 1), c \in ShapeAlphabet }

\* the candidates the specification names, and project parts of 10 and 11
\* characters
LOWER_CANDIDATE == <<"a","b","c","-","1","2","3">>
SINGLE_CHAR_PROJECT == <<"A","-","1">>
PROJECT_OF_10 == <<"A","B","C","D","E","F","G","H","I","J","-","1">>
PROJECT_OF_11 == <<"A","B","C","D","E","F","G","H","I","J","K","-","1">>

ShapeTexts ==
    CharTextsUpTo(MaxChars)
        \cup {None, LOWER_CANDIDATE, SINGLE_CHAR_PROJECT, PROJECT_OF_10,
              PROJECT_OF_11, BRANCH_EXAMPLE, PLAT7_SECO42}

\* an allow-list that holds the project part of every candidate above
ENV_SHAPE == <<"A",",","A","A",",","A","1",",","A","A","A",",","A","A","1",",","A","1","A",",","A","1","1",",","a","b","c",",","a",",","A","B","C","D","E","F","G","H","I","J",",","A","B","C","D","E","F","G","H","I","J","K",",","S","E","C","O",",","P","L","A","T">>

ShapeEnvs == { <<>>, ENV_SECO_PLAT, ENV_SHAPE }

InitShapeVars ==
    /\ eText = <<>>
    /\ eEnv = <<>>
    /\ eKeys = <<>>
    /\ ePc = "idle"

\* the vocabulary the generated texts are built from
Tokens == { SECO42, PLAT7_SECO42, DASHFIX, XSLASH, LOWERKEY }

\* all concatenations of at most n tokens
RECURSIVE TextsUpTo(_)
TextsUpTo(n) ==
    IF n = 0 THEN {<<>>}
    ELSE TextsUpTo(n - 1) \cup { t \o k : t \in TextsUpTo(n - 1), k \in Tokens }

\* the values one text source can take: a generated text, or a missing field
SourceTexts == TextsUpTo(MaxTokens) \cup {None}

\* the values of JIRA_PROJECT_KEYS: unset (""), one project, two projects
ProjectEnvs == { <<>>, ENV_SECO, ENV_SECO_PLAT }

\* the example of the specification: branch, title, body
ExampleTexts == <<BRANCH_EXAMPLE, UNRELATED, <<>>>>

InitKeyVars ==
    /\ kTexts = <<>>
    /\ kEnv = <<>>
    /\ kResult = None
    /\ kDone = FALSE

(***************************************************************************)
(* The sync engine: state of one process run and of the Jira server.        *)
(***************************************************************************)
VARIABLES
    pc,             \* position of the running process_pull_request
    runs,           \* number of runs started so far
    action,         \* event["action"]
    pr_data,        \* the fields extracted from event["pull_request"]
    env,            \* the environment variables of the run
    jira_key,       \* result of get_first_jira_key, None if no key
    transition_id,  \* id matched by transition_issue, None if none
    transitions,    \* the transitions transition_issue fetched, None if none
    transition_ret, \* what transition_issue returned: "True", "False", or
                    \* "none" while it has not returned
    links,          \* remote links held by the Jira server
    calls,          \* Jira REST calls issued by the current run, in order
    notice,         \* whether the run printed the ::notice:: annotation
    exitCode,       \* exit code of the finished run
    outcome         \* how the finished run ended

svars == <<pc, runs, action, pr_data, env, jira_key, transition_id,
           transitions, transition_ret, links,
           calls, notice, exitCode, outcome>>

\* the state of transition_issue
tvars == <<transition_id, transitions, transition_ret>>

vars == <<svars, pvars>>

\* truth value of a Python string or None in a condition
Truthy(x) == x # None /\ x # <<>>

\* transition names and ids, as texts
IN_REVIEW_ID == <<"2","1">>
DONE_ID == <<"3","1">>
IN_REVIEW_NAME == <<"I","n"," ","R","e","v","i","e","w">>
DONE_NAME == <<"D","o","n","e">>
DONE_LOWER == <<"d","o","n","e">>
DONE_UPPER == <<"D","O","N","E">>
OTHER_ID == <<"4","1">>

Actions == {"opened", "reopened", "ready_for_review", "synchronize", "closed",
            "edited", ""}

Urls == {"https://github.com/o/r/pull/1", "https://github.com/o/r/pull/2"}

\* head_ref, title, body of the events
EventTexts == { ExampleTexts, <<XSLASH, PLAT7_SECO42, None>>,
                <<XSLASH, LOWERKEY, None>> }

\* values of JIRA_PROJECT_KEYS of the runs
RunProjectEnvs == { <<>>, ENV_SECO_PLAT }

\* the state of a PR as GitHub reports it with an action
StateOf(a) == IF a = "closed" THEN "closed" ELSE "open"

\* pr_data and env before an event is loaded
NoPr == [html_url |-> "", state |-> "open", merged |-> FALSE, texts |-> <<>>,
         user |-> "unknown", merge_commit_sha |-> ""]

NoEnv == [JIRA_PROJECT_KEYS |-> <<>>, JIRA_TRANSITION_IN_REVIEW |-> None,
          JIRA_TRANSITION_DONE |-> None]

\* JiraGitHubSync._get_status_text
_get_status_text(state, merged) ==
    IF merged THEN "Merged"
    ELSE IF state = "open" THEN "Open"
    ELSE "Closed"

\* the payload create_or_update_remote_link posts
LinkPayload(issue, pr) ==
    [issue |-> issue, url |-> pr.html_url, resolved |-> pr.merged,
     label |-> _get_status_text(pr.state, pr.merged)]

\* the scan of the existing links for the PR's URL
LinkExists(existing, issue, pr) ==
    \E i \in 1..Len(existing) :
        existing[i].issue = issue /\ existing[i].url = pr.html_url

\* a Jira call as the log records it
Call(op, ok, data) == [op |-> op, ok |-> ok, data |-> data]


(***************************************************************************)
(* The action-to-effect mapping of process_pull_request.                    *)
(***************************************************************************)
\* the comment posted for an event, as the parts of the formatted text in
\* order; None when the action has no branch
CommentFor(act, pr) ==
    IF act = "opened"
        THEN <<"Pull Request opened by", pr.user, pr.html_url>>
    ELSE IF act = "closed"
        THEN IF pr.merged
             THEN <<"Pull Request merged", pr.html_url,
                    "Merge commit", pr.merge_commit_sha>>
             ELSE <<"Pull Request closed without merge", pr.html_url>>
    ELSE IF act = "ready_for_review"
        THEN <<"Pull Request ready for review", pr.html_url>>
    ELSE None

\* a variant whose closed branch does not look at merged
TransitionForAnyClose(act, pr, e) ==
    IF act = "opened" THEN e.JIRA_TRANSITION_IN_REVIEW
    ELSE IF act = "closed" THEN e.JIRA_TRANSITION_DONE
    ELSE IF act = "ready_for_review" THEN e.JIRA_TRANSITION_IN_REVIEW
    ELSE None

\* the transition name read from the environment for an event; None when the
\* branch of the action reads none
TransitionFor(act, pr, e) ==
    IF act = "opened" THEN e.JIRA_TRANSITION_IN_REVIEW
    ELSE IF act = "closed" /\ pr.merged THEN e.JIRA_TRANSITION_DONE
    ELSE IF act = "ready_for_review" THEN e.JIRA_TRANSITION_IN_REVIEW
    ELSE None

\* a variant that gives up when the remote link could not be ensured
AfterLinkAbort(ok, act, pr) ==
    IF ~ok THEN "done"
    ELSE IF CommentFor(act, pr) # None THEN "comment" ELSE "done"

\* the step after create_or_update_remote_link returned ok
AfterLink(ok, act, pr) ==
    IF CommentFor(act, pr) # None THEN "comment" ELSE "done"

\* the step after add_comment returned ok
AfterComment(ok, act, pr, e) ==
    IF Truthy(TransitionFor(act, pr, e)) THEN "trans_get" ELSE "done"

\* a variant that goes on to the verification without a key
AfterExtractNoSkip(key) == "verify"

\* the step after get_first_jira_key returned key
AfterExtract(key) == IF key = None THEN "done" ELSE "verify"

(***************************************************************************)
(* transition_issue: matching a name or id among the available transitions. *)
(***************************************************************************)
UpperSeq == <<"A","B","C","D","E","F","G","H","I","J","K","L","M",
              "N","O","P","Q","R","S","T","U","V","W","X","Y","Z">>

LowerSeq == <<"a","b","c","d","e","f","g","h","i","j","k","l","m",
              "n","o","p","q","r","s","t","u","v","w","x","y","z">>

\* str.lower
ToLower(s) ==
    [i \in 1..Len(s) |->
        IF s[i] \in Upper
        THEN LowerSeq[CHOOSE j \in 1..Len(UpperSeq) : UpperSeq[j] = s[i]]
        ELSE s[i]]

TransitionMatches(trans, name_or_id) ==
    \/ trans.id = name_or_id
    \/ ToLower(trans.name) = ToLower(name_or_id)

\* a variant that keeps the last matching transition
RECURSIVE FindLastTransition(_, _)
FindLastTransition(transitions_, name_or_id) ==
    IF transitions_ = <<>> THEN None
    ELSE IF TransitionMatches(transitions_[Len(transitions_)], name_or_id)
         THEN transitions_[Len(transitions_)].id
         ELSE FindLastTransition(SubSeq(transitions_, 1, Len(transitions_) - 1),
                                 name_or_id)

\* the id of the first matching transition, None if none matches
RECURSIVE FindTransition(_, _)
FindTransition(transitions_, name_or_id) ==
    IF transitions_ = <<>> THEN None
    ELSE IF TransitionMatches(Head(transitions_), name_or_id)
         THEN Head(transitions_).id
         ELSE FindTransition(Tail(transitions_), name_or_id)

\* the transition lists the server may report for the issue
AvailableTransitions ==
    { <<>>,
      <<[id |-> DONE_ID, name |-> DONE_NAME]>>,
      <<[id |-> IN_REVIEW_ID, name |-> IN_REVIEW_NAME],
        [id |-> DONE_ID, name |-> DONE_NAME]>>,
      <<[id |-> OTHER_ID, name |-> DONE_UPPER],
        [id |-> DONE_ID, name |-> DONE_NAME]>>,
      <<[id |-> OTHER_ID, name |-> IN_REVIEW_ID],
        [id |-> IN_REVIEW_ID, name |-> IN_REVIEW_NAME]>> }

(***************************************************************************)
(* Responses of the Jira server, as the code distinguishes them.            *)
(***************************************************************************)
VerifyResponses == {"200", "404", "timeout"}
LookupResponses == {"200", "error"}
CreateResponses == {"201", "400", "timeout"}
CommentResponses == {"201", "400", "timeout"}
FetchResponses == {"200", "500"}
ExecuteResponses == {"204", "400", "timeout"}

\* a variant that accepts every HTTP response, whatever its status
verify_any_response(resp) == resp # "timeout"

\* JiraGitHubSync.verify_issue_exists, on the response of the GET
verify_issue_exists(resp) == resp = "200"

\* the status test of the link and comment POSTs
PostOk(resp) == resp \in {"200", "201"}

\* the status test of the transition POST
ExecuteOk(resp) == resp \in {"200", "204"}


\* the triggers of the concurrent runs
Triggers == 1..MaxTriggers

\* no trigger has fired
InitRaceVars ==
    /\ rpc = [p \in Triggers |-> "idle"]
    /\ rpr = [p \in Triggers |-> NoPr]
    /\ rret = [p \in Triggers |-> "none"]

(***************************************************************************)
(* Initial state.                                                           *)
(***************************************************************************)
InitSyncVars ==
    /\ pc = "idle"
    /\ runs = 0
    /\ action = ""
    /\ pr_data = NoPr
    /\ env = NoEnv
    /\ jira_key = None
    /\ transition_id = None
    /\ transitions = None
    /\ transition_ret = "none"
    /\ links = <<>>
    /\ calls = <<>>
    /\ notice = FALSE
    /\ exitCode = 0
    /\ outcome = ""

Init == InitSyncVars /\ InitKeyVars /\ InitShapeVars /\ InitRaceVars

\* the draw of the inputs of key extraction
InitKey ==
    /\ InitSyncVars
    /\ kTexts \in (SourceTexts \X SourceTexts \X SourceTexts) \cup {ExampleTexts}
    /\ kEnv \in ProjectEnvs
    /\ kResult = None
    /\ kDone = FALSE
    /\ InitShapeVars
    /\ InitRaceVars

(***************************************************************************)
(* The steps of one run: main(), __init__ and process_pull_request.         *)
(***************************************************************************)
\* a new process starts
Fresh ==
    /\ pc = "idle"
    /\ runs < MaxRuns
    /\ runs' = runs + 1
    /\ UNCHANGED <<calls, tvars, links>>

\* the run proceeds to step next; reaching the end of process_pull_request
\* the process exits with code 0
Goto(next) ==
    /\ pc' = next
    /\ IF next = "done"
       THEN exitCode' = 0 /\ outcome' = "completed"
       ELSE UNCHANGED <<exitCode, outcome>>

\* __init__: a required Jira setting is missing, sys.exit(1)
ConfigMissing ==
    /\ Fresh
    /\ pc' = "done"
    /\ exitCode' = 1
    /\ outcome' = "config_missing"
    /\ action' = ""
    /\ pr_data' = NoPr
    /\ env' = NoEnv
    /\ jira_key' = None
    /\ notice' = FALSE
    /\ UNCHANGED pvars

\* process_pull_request: no event file, or the event has no pull_request
NoPullRequest ==
    /\ Fresh
    /\ pc' = "done"
    /\ exitCode' = 0
    /\ outcome' \in {"no_event", "not_pr"}
    /\ action' = ""
    /\ pr_data' = NoPr
    /\ env' = NoEnv
    /\ jira_key' = None
    /\ notice' = FALSE
    /\ UNCHANGED pvars

\* process_pull_request, lines 242-270: the event is loaded and its fields
\* are extracted into pr_data
LoadEvent ==
    /\ Fresh
    /\ \E a \in Actions, m \in BOOLEAN, u \in Urls, tx \in EventTexts,
          pe \in RunProjectEnvs, ti \in {None, IN_REVIEW_ID},
          td \in {None, DONE_LOWER} :
        /\ action' = a
        /\ pr_data' = [html_url |-> u, state |-> StateOf(a), merged |-> m,
                       texts |-> tx, user |-> "alice",
                       merge_commit_sha |-> "c0ffee"]
        /\ env' = [JIRA_PROJECT_KEYS |-> pe,
                   JIRA_TRANSITION_IN_REVIEW |-> ti,
                   JIRA_TRANSITION_DONE |-> td]
    /\ pc' = "extract"
    /\ jira_key' = None
    /\ notice' = FALSE
    /\ exitCode' = 0
    /\ outcome' = ""
    /\ UNCHANGED pvars

\* process_pull_request, lines 272-282: the Jira key is looked for in the
\* branch, the title and the body; without a key the run is skipped
ExtractJiraKey ==
    /\ pc = "extract"
    /\ jira_key' = get_first_jira_key(pr_data.texts,
                                      ValidProjects(env.JIRA_PROJECT_KEYS))
    /\ pc' = AfterExtract(jira_key')
    /\ IF pc' = "done"
       THEN notice' = TRUE /\ exitCode' = 0 /\ outcome' = "no_key"
       ELSE UNCHANGED <<notice, exitCode, outcome>>
    /\ UNCHANGED <<runs, action, pr_data, env, tvars, links, calls,
                   pvars>>

\* verify_issue_exists and the exit on its failure
VerifyIssue ==
    /\ pc = "verify"
    /\ \E resp \in VerifyResponses :
        /\ calls' = Append(calls, Call("verify", resp = "200", resp))
        /\ IF verify_issue_exists(resp)
           THEN pc' = "link_get" /\ UNCHANGED <<exitCode, outcome>>
           ELSE pc' = "done" /\ exitCode' = 1 /\ outcome' = "not_found"
    /\ UNCHANGED <<runs, action, pr_data, env, jira_key, tvars, links,
                   notice, pvars>>

\* create_or_update_remote_link, first half: the GET of the existing links
\* and the scan for the PR's URL; a failed GET is swallowed
LinkLookup ==
    /\ pc = "link_get"
    /\ \E resp \in LookupResponses :
        /\ calls' = Append(calls, Call("link_get", resp = "200", resp))
        /\ IF resp = "200" /\ LinkExists(links, jira_key, pr_data)
           THEN Goto(AfterLink(TRUE, action, pr_data))
           ELSE Goto("link_post")
    /\ UNCHANGED <<runs, action, pr_data, env, jira_key, tvars, links,
                   notice, pvars>>

\* create_or_update_remote_link, second half: the POST of the new link; on
\* success the server holds one more link, as the lookup before it assumes
LinkCreate ==
    /\ pc = "link_post"
    /\ \E resp \in CreateResponses :
        /\ calls' = Append(calls, Call("link_post", PostOk(resp),
                                       LinkPayload(jira_key, pr_data)))
        /\ links' = IF PostOk(resp)
                    THEN Append(links, LinkPayload(jira_key, pr_data))
                    ELSE links
        /\ Goto(AfterLink(PostOk(resp), action, pr_data))
    /\ UNCHANGED <<runs, action, pr_data, env, jira_key, tvars,
                   notice, pvars>>

\* add_comment
AddComment ==
    /\ pc = "comment"
    /\ \E resp \in CommentResponses :
        /\ calls' = Append(calls, Call("comment", PostOk(resp),
                                       CommentFor(action, pr_data)))
        /\ Goto(AfterComment(PostOk(resp), action, pr_data, env))
    /\ UNCHANGED <<runs, action, pr_data, env, jira_key, tvars, links,
                   notice, pvars>>

\* transition_issue, first half: the GET of the available transitions and
\* the search for the configured one
TransitionFetch ==
    /\ pc = "trans_get"
    /\ \E resp \in FetchResponses, avail \in AvailableTransitions :
        LET found == FindTransition(avail, TransitionFor(action, pr_data, env))
        IN  /\ calls' = Append(calls, Call("trans_get", resp = "200", resp))
            /\ transitions' = IF resp = "200" THEN avail ELSE None
            /\ IF resp = "200" /\ found # None
               THEN /\ transition_id' = found
                    /\ transition_ret' = "none"
                    /\ Goto("trans_post")
               ELSE /\ transition_id' = None
                    /\ transition_ret' = IF resp = "200" THEN "True" ELSE "False"
                    /\ Goto("done")
    /\ UNCHANGED <<runs, action, pr_data, env, jira_key, links, notice, pvars>>

\* transition_issue, second half: the POST that executes the transition
TransitionExecute ==
    /\ pc = "trans_post"
    /\ \E resp \in ExecuteResponses :
        /\ calls' = Append(calls, Call("trans_post", ExecuteOk(resp),
                                       transition_id))
        /\ transition_ret' = IF ExecuteOk(resp) THEN "True" ELSE "False"
        /\ Goto("done")
    /\ UNCHANGED <<runs, action, pr_data, env, jira_key, transition_id,
                   transitions, links, notice, pvars>>

\* the process is gone: nothing of its state is left but what the Jira
\* server holds
ProcessExit ==
    /\ pc = "done"
    /\ pc' = "idle"
    /\ action' = ""
    /\ pr_data' = NoPr
    /\ env' = NoEnv
    /\ jira_key' = None
    /\ transition_id' = None
    /\ transitions' = None
    /\ transition_ret' = "none"
    /\ calls' = <<>>
    /\ notice' = FALSE
    /\ exitCode' = 0
    /\ outcome' = ""
    /\ UNCHANGED <<runs, links, pvars>>

Next ==
    \/ ConfigMissing
    \/ NoPullRequest
    \/ LoadEvent
    \/ ExtractJiraKey
    \/ VerifyIssue
    \/ LinkLookup
    \/ LinkCreate
    \/ AddComment
    \/ TransitionFetch
    \/ TransitionExecute
    \/ ProcessExit

Spec == Init /\ [][Next]_vars

\* get_first_jira_key applied to the drawn inputs
ApplyFirstKey ==
    /\ ~kDone
    /\ kResult' = get_first_jira_key(kTexts, ValidProjects(kEnv))
    /\ kDone' = TRUE
    /\ UNCHANGED <<kTexts, kEnv>>
    /\ UNCHANGED <<svars, evars, rvars>>

\* key extraction on its own
NextKey == ApplyFirstKey

SpecKey == InitKey /\ [][NextKey]_vars


(***************************************************************************)
(* Properties.                                                              *)
(***************************************************************************)
\* the positions of the calls of the current run with one of the given ops
CallsOf(ops) == { i \in 1..Len(calls) : calls[i].op \in ops }

SideEffectOps == {"link_get", "link_post", "comment", "trans_get", "trans_post"}

\* the run loaded a pull-request event
PrLoaded == pr_data # NoPr

\* the run passed the verification and reached the end
Completed == pc = "done" /\ outcome = "completed"

\* C1: whenever the issue-verification call of a run reports the issue as not
\* retrievable (a status other than 200, or an exception), the process has
\* exited with a non-zero code and the run has issued no remote-link,
\* comment or transition call, neither GET nor POST.
C1_VerifyGate ==
    (\E i \in CallsOf({"verify"}) : calls[i].data # "200")
        => /\ pc = "done"
           /\ exitCode # 0
           /\ CallsOf(SideEffectOps) = {}

C1_Witness ==
    /\ pc = "done"
    /\ jira_key = SECO42
    /\ calls = <<Call("verify", FALSE, "404")>>
    /\ exitCode = 1

\* no text source of the loaded event yields a key
NoSourceYieldsKey ==
    \A i \in 1..Len(pr_data.texts) :
        extract_jira_keys(pr_data.texts[i],
                          ValidProjects(env.JIRA_PROJECT_KEYS)) = <<>>

\* C2: when none of the three text sources (branch, title, body) yields a
\* key, the key lookup of process_pull_request gives none and the run
\* soft-skips: it emits the notice, has issued no Jira call and ends with
\* exit code 0.
C2_NoKeySoftSkip ==
    [][(pc = "extract" /\ NoSourceYieldsKey)
        => /\ jira_key' = None
           /\ pc' = "done"
           /\ outcome' = "no_key"
           /\ notice'
           /\ calls' = <<>>
           /\ exitCode' = 0]_vars

C2_Witness ==
    /\ pc = "done"
    /\ outcome = "no_key"
    /\ PrLoaded
    /\ env.JIRA_PROJECT_KEYS = ENV_SECO_PLAT
    /\ notice
    /\ calls = <<>>
    /\ exitCode = 0
    /\ NoSourceYieldsKey

\* the remote links of an issue that point at a URL
LinksTo(issue, url) ==
    { i \in 1..Len(links) : links[i].issue = issue /\ links[i].url = url }

\* C3: remote-link creation is idempotent: whatever the number of sequential
\* invocations for the same issue and PR URL, the issue holds at most one
\* remote link with that URL.
C3_AtMostOneLink ==
    \A i \in 1..Len(links) :
        Cardinality(LinksTo(links[i].issue, links[i].url)) <= 1

\* the texts of the comments posted by the current run
CommentsPosted == [i \in CallsOf({"comment"}) |-> calls[i].data]

\* a comment contains a part
Contains(comment, part) == \E k \in 1..Len(comment) : comment[k] = part

\* C4: a verified run for action "closed" posts exactly one comment; with
\* merged true the comment contains the merge commit SHA and the "done"
\* transition is attempted iff a done-transition name is configured; with
\* merged false the comment is the "closed without merge" one and no
\* transition call is made, whatever names are configured.
C4_Closed ==
    (Completed /\ action = "closed")
        => /\ Cardinality(CallsOf({"comment"})) = 1
           /\ \A i \in CallsOf({"comment"}) :
                IF pr_data.merged
                THEN Contains(calls[i].data, pr_data.merge_commit_sha)
                ELSE calls[i].data[1] = "Pull Request closed without merge"
           /\ IF pr_data.merged
              THEN (CallsOf({"trans_get"}) # {})
                       <=> Truthy(env.JIRA_TRANSITION_DONE)
              ELSE CallsOf({"trans_get", "trans_post"}) = {}

C4_Witness ==
    /\ Completed
    /\ action = "closed"
    /\ pr_data.merged
    /\ Truthy(env.JIRA_TRANSITION_DONE)
    /\ CallsOf({"comment"}) # {}
    /\ \E i \in CallsOf({"trans_post"}) : calls[i].ok /\ calls[i].data = DONE_ID

\* C5: a verified run for each of the actions opened, reopened,
\* ready_for_review and synchronize ensures the remote link, posts a comment
\* that names the acting user and the PR URL, and attempts the "in review"
\* transition iff an in-review transition name is configured.
C5_OpenedOrUpdated ==
    (Completed /\ action \in {"opened", "reopened", "ready_for_review",
                              "synchronize"})
        => /\ CallsOf({"link_get"}) # {}
           /\ \E i \in CallsOf({"comment"}) :
                /\ Contains(calls[i].data, pr_data.user)
                /\ Contains(calls[i].data, pr_data.html_url)
           /\ (CallsOf({"trans_get"}) # {})
                  <=> Truthy(env.JIRA_TRANSITION_IN_REVIEW)

\* C6: a run for an event whose action is none of opened, reopened,
\* ready_for_review, synchronize and closed is a no-op with respect to Jira:
\* it creates no remote link, posts no comment, attempts no transition, and
\* it ends with exit code 0.
C6_OtherActionNoOp ==
    (PrLoaded /\ action \notin {"opened", "reopened", "ready_for_review",
                                "synchronize", "closed"})
        => /\ CallsOf({"link_post", "comment", "trans_get", "trans_post"}) = {}
           /\ pc = "done" => exitCode = 0

\* the step a call belongs to
StepOf(op) ==
    IF op \in {"link_get", "link_post"} THEN "link"
    ELSE IF op \in {"trans_get", "trans_post"} THEN "transition"
    ELSE op

\* the steps a sequence of calls went through, in order
RECURSIVE StepsOf(_)
StepsOf(cs) ==
    IF cs = <<>> THEN <<>>
    ELSE IF Len(cs) > 1 /\ StepOf(cs[1].op) = StepOf(cs[2].op)
         THEN StepsOf(Tail(cs))
         ELSE <<StepOf(cs[1].op)>> \o StepsOf(Tail(cs))

\* the steps the (action, merged) pair and the configuration call for
StepsCalledFor ==
    <<"verify", "link">>
    \o (IF action \in {"opened", "closed", "ready_for_review"}
        THEN <<"comment">> ELSE <<>>)
    \o (IF \/ /\ action \in {"opened", "ready_for_review"}
              /\ Truthy(env.JIRA_TRANSITION_IN_REVIEW)
           \/ /\ action = "closed"
              /\ pr_data.merged
              /\ Truthy(env.JIRA_TRANSITION_DONE)
        THEN <<"transition">> ELSE <<>>)

C8_LinkResolvedAfterMerge ==
    (Completed /\ action = "closed" /\ pr_data.merged
        /\ \E i \in CallsOf({"link_get"}) : calls[i].ok)
        => \A i \in LinksTo(jira_key, pr_data.html_url) :
                links[i].resolved /\ links[i].label = "Merged"

\* the keys source i of the drawn inputs yields
KeysOfSource(i) == extract_jira_keys(kTexts[i], ValidProjects(kEnv))

\* C9: get_first_jira_key returns the first key of the first source, in the
\* order branch, title, body, whose extract_jira_keys result is non-empty;
\* sources that yield no key are skipped, keys of later sources never take
\* precedence, and the result is none only if every source yields no key.
C9_FirstKeyOfFirstSource ==
    kDone =>
        IF \A i \in 1..Len(kTexts) : KeysOfSource(i) = <<>>
        THEN kResult = None
        ELSE \E i \in 1..Len(kTexts) :
                /\ KeysOfSource(i) # <<>>
                /\ \A j \in 1..(i - 1) : KeysOfSource(j) = <<>>
                /\ kResult = KeysOfSource(i)[1]

C9_Witness ==
    /\ kDone
    /\ KeysOfSource(1) = <<>>
    /\ KeysOfSource(2) = <<PLAT7, SECO42>>
    /\ KeysOfSource(3) = <<SECO42>>
    /\ kResult = PLAT7

\* the first pattern match of the first source that has one, None if no
\* source has a match
RECURSIVE FirstMatch(_)
FirstMatch(texts) ==
    IF texts = <<>> THEN None
    ELSE IF FindAll(OrEmpty(Head(texts)), 1) # <<>>
         THEN FindAll(OrEmpty(Head(texts)), 1)[1]
         ELSE FirstMatch(Tail(texts))

\* C10: when no allow-list is configured (JIRA_PROJECT_KEYS unset or empty)
\* every pattern match is returned unfiltered, so that the result is the
\* first match of the first source that has one; for the branch
\* "feature/SECO-42-fix", the title "Unrelated" and an empty body it is
\* "SECO-42".
C10_NoAllowListNoFilter ==
    (kDone /\ kEnv = <<>>)
        => /\ kResult = FirstMatch(kTexts)
           /\ kTexts = ExampleTexts => kResult = SECO42


(***************************************************************************)
(* The two key extractors on their own.                                     *)
(***************************************************************************)
\* the draw of a text and of an allow-list
InitShape ==
    /\ InitSyncVars
    /\ InitKeyVars
    /\ InitRaceVars
    /\ eText \in ShapeTexts
    /\ eEnv \in ShapeEnvs
    /\ eKeys = <<>>
    /\ ePc = "idle"

\* JiraGitHubSync.extract_jira_keys applied to the drawn text
ApplyExtractJiraKeys ==
    /\ ePc = "idle"
    /\ eKeys' = extract_jira_keys(eText, ValidProjects(eEnv))
    /\ ePc' = "jira_sync"
    /\ UNCHANGED <<eText, eEnv, svars, kvars, rvars>>

\* extract_jira.extract_keys applied to the drawn text
ApplyExtractKeys ==
    /\ ePc = "idle"
    /\ eKeys' = extract_keys(eText)
    /\ ePc' = "extract_jira"
    /\ UNCHANGED <<eText, eEnv, svars, kvars, rvars>>

NextShape == ApplyExtractJiraKeys \/ ApplyExtractKeys

SpecShape == InitShape /\ [][NextShape]_vars

\* the key shape [A-Z][A-Z0-9]{1,9}-[0-9]+ : an upper-case letter, 1 to 9
\* upper-case letters or digits, a hyphen, one or more digits
HasKeyShape(k) ==
    \E n \in 1..9 :
        /\ Len(k) >= n + 3
        /\ k[1] \in Upper
        /\ \A j \in 2..(n + 1) : k[j] \in (Upper \cup Digit)
        /\ k[n + 2] = "-"
        /\ \A j \in (n + 3)..Len(k) : k[j] \in Digit

\* C11: every string returned by key extraction has the key shape
\* [A-Z][A-Z0-9]{1,9}-[0-9]+ (a project part of 2 to 10 characters); the
\* lower-case candidate "abc-123", the single-character project "A-1" and
\* the 11-character project "ABCDEFGHIJK-1" yield no key; an empty or
\* missing text yields no key.
C11_KeyShape ==
    ePc # "idle"
        => /\ \A i \in 1..Len(eKeys) : HasKeyShape(eKeys[i])
           /\ eText \in {LOWER_CANDIDATE, SINGLE_CHAR_PROJECT, PROJECT_OF_11}
                => eKeys = <<>>
           /\ eText \in {<<>>, None} => eKeys = <<>>

\* the same statement of JiraGitHubSync.extract_jira_keys alone
KeyShapeOfJiraSync == ePc = "jira_sync" => C11_KeyShape

\* JiraGitHubSync.extract_jira_keys returned keys, among them a project part
\* of 10 characters
JiraSyncReturnsKeys ==
    /\ ePc = "jira_sync"
    /\ eText = PROJECT_OF_10
    /\ eKeys = <<PROJECT_OF_10>>

(***************************************************************************)
(* transition_issue                                                        *)
(***************************************************************************)

\* the run fetched the transitions of the issue
TransitionsFetched == \E i \in CallsOf({"trans_get"}) : calls[i].ok

\* the positions, in the list the run fetched, of the transitions whose id
\* equals the configured name or id, or whose name equals it ignoring case
MatchingTransitions ==
    IF ~TransitionsFetched THEN {}
    ELSE LET name == TransitionFor(action, pr_data, env)
         IN  { i \in 1..Len(transitions) :
                 \/ transitions[i].id = name
                 \/ ToLower(transitions[i].name) = ToLower(name) }

FirstMatching ==
    CHOOSE i \in MatchingTransitions : \A j \in MatchingTransitions : i <= j

\* C12: transition_issue selects, among the transitions the issue offers, the
\* first whose id equals name_or_id exactly or whose name equals it ignoring
\* case, and executes exactly that one; when none matches it issues no
\* execute call and returns success; a non-success answer to the execute
\* call is returned as a failure value and the run still completes with
\* exit code 0.
C12_TransitionIssue ==
    CallsOf({"trans_get", "trans_post"}) # {}
      => \A posts \in {CallsOf({"trans_post"})}, matching \in {MatchingTransitions} :
           IF matching = {}
           THEN /\ posts = {}
                /\ TransitionsFetched
                     => transition_ret = "True" /\ Completed /\ exitCode = 0
           ELSE \A first \in {FirstMatching} :
                /\ \A j \in matching : first <= j
                /\ transition_id = transitions[first].id
                /\ Cardinality(posts) <= 1
                /\ \A i \in posts : calls[i].data = transitions[first].id
                /\ pc \in {"trans_post", "done"}
                /\ pc = "trans_post" => posts = {} /\ transition_ret = "none"
                /\ pc = "done"
                     => /\ Cardinality(posts) = 1
                        /\ \A i \in posts :
                             transition_ret = IF calls[i].ok THEN "True"
                                              ELSE "False"
                        /\ Completed /\ exitCode = 0

\* two of the offered transitions match, the first by name in another case,
\* and the execute call for the first was refused: the run has completed
C12_Witness ==
    /\ Completed /\ exitCode = 0
    /\ Cardinality(MatchingTransitions) = 2
    /\ transitions[1].id = OTHER_ID
    /\ transition_ret = "False"
    /\ \E i \in CallsOf({"trans_post"}) :
         calls[i].data = OTHER_ID /\ ~calls[i].ok

\* no offered transition matches: no execute call, success
C12_NoMatchWitness ==
    /\ Completed
    /\ TransitionsFetched /\ Len(transitions) > 0
    /\ MatchingTransitions = {}
    /\ transition_ret = "True"

(***************************************************************************)
(* Concurrent triggers for one pull request                                *)
(***************************************************************************)

\* the pull request and the issue all the triggers are about
RACE_URL == "https://github.com/o/r/pull/1"
RACE_ISSUE == SECO42

\* the events the triggers carry: the pull request open, or closed by a merge
RaceEvents ==
    { [html_url |-> RACE_URL, state |-> st, merged |-> m, texts |-> ExampleTexts,
       user |-> "alice", merge_commit_sha |-> "c0ffee"] :
         <<st, m>> \in {<<"open", FALSE>>, <<"closed", TRUE>>} }

InitRace == InitSyncVars /\ InitKeyVars /\ InitShapeVars /\ InitRaceVars

\* what a concurrent run leaves alone: the state of the single-run engine but
\* the links the Jira server holds
RaceUnchanged ==
    UNCHANGED <<pc, runs, action, pr_data, env, jira_key, tvars, calls,
                notice, exitCode, outcome, kvars, evars>>

\* a CI trigger starts a process that reaches create_or_update_remote_link
RaceTrigger(p) ==
    /\ rpc[p] = "idle"
    /\ \E pr \in RaceEvents : rpr' = [rpr EXCEPT ![p] = pr]
    /\ rpc' = [rpc EXCEPT ![p] = "link_get"]
    /\ UNCHANGED <<rret, links>>
    /\ RaceUnchanged

\* create_or_update_remote_link, first half, in the process of trigger p
RaceLookup(p) ==
    /\ rpc[p] = "link_get"
    /\ \E resp \in LookupResponses :
        IF resp = "200" /\ LinkExists(links, RACE_ISSUE, rpr[p])
        THEN /\ rpc' = [rpc EXCEPT ![p] = "returned"]
             /\ rret' = [rret EXCEPT ![p] = "True"]
        ELSE /\ rpc' = [rpc EXCEPT ![p] = "link_post"]
             /\ UNCHANGED rret
    /\ UNCHANGED <<rpr, links>>
    /\ RaceUnchanged

\* a variant that posts the new link twice
RaceCreateTwice(p) ==
    /\ rpc[p] = "link_post"
    /\ links' = links \o << LinkPayload(RACE_ISSUE, rpr[p]),
                            LinkPayload(RACE_ISSUE, rpr[p]) >>
    /\ rpc' = [rpc EXCEPT ![p] = "returned"]
    /\ rret' = [rret EXCEPT ![p] = "True"]
    /\ UNCHANGED rpr
    /\ RaceUnchanged

\* create_or_update_remote_link, second half, in the process of trigger p
RaceCreate(p) ==
    /\ rpc[p] = "link_post"
    /\ \E resp \in CreateResponses :
        /\ links' = IF PostOk(resp)
                    THEN Append(links, LinkPayload(RACE_ISSUE, rpr[p]))
                    ELSE links
        /\ rret' = [rret EXCEPT ![p] = IF PostOk(resp) THEN "True" ELSE "False"]
    /\ rpc' = [rpc EXCEPT ![p] = "returned"]
    /\ UNCHANGED rpr
    /\ RaceUnchanged

NextRace ==
    \E p \in Triggers : RaceTrigger(p) \/ RaceLookup(p) \/ RaceCreate(p)

SpecRace == InitRace /\ [][NextRace]_vars

\* the triggers that have fired
Triggered == { p \in Triggers : rpc[p] # "idle" }

\* C13: when several sync runs for the same PR URL and the same issue run
\* concurrently, each reading the existing links and then creating the link,
\* the issue never holds more than two remote links with that URL (at most
\* one duplicate), whatever the number of concurrent triggers.
C13_AtMostOneDuplicate ==
    Cardinality(LinksTo(RACE_ISSUE, RACE_URL)) <= 2

\* C13, amended: the issue never holds more remote links with that URL than
\* concurrent runs have been triggered, each run creating at most one; two
\* concurrent runs create at most one duplicate.
C13_AtMostOneLinkPerRun ==
    /\ Cardinality(LinksTo(RACE_ISSUE, RACE_URL)) <= Cardinality(Triggered)
    /\ Cardinality(Triggered) <= 2
         => Cardinality(LinksTo(RACE_ISSUE, RACE_URL)) <= 2

\* three triggers have all read the links before any created one, and the
\* issue holds three links with the URL
C13_Witness ==
    /\ Cardinality(Triggered) = 3
    /\ \A p \in Triggered : rpc[p] = "returned" /\ rret[p] = "True"
    /\ Cardinality(LinksTo(RACE_ISSUE, RACE_URL)) = 3

====
